---- MODULE Spec2Model ----
(***************************************************************************)
(* A model of quote.py: the quoting functions, the character escapers and  *)
(* the line-by-line driver of main().                                      *)
(*                                                                         *)
(* A Python str is a sequence of code points (naturals).  A one-character  *)
(* str is a sequence of length 1, as in Python.                            *)
(***************************************************************************)
EXTENDS Integers, Sequences, FiniteSets, TLC

\* ---------------------------------------------------------------------------
\* Code points of the characters the source names.
\* ---------------------------------------------------------------------------
NUL == 0
BEL == 7
BS == 8
HT == 9
LF == 10
VT == 11
FF == 12
CR == 13
SPACE == 32
BANG == 33
DQUOTE == 34
HASH == 35
DOLLAR == 36
PERCENT == 37
AMP == 38
SQUOTE == 39
LPAREN == 40
RPAREN == 41
STAR == 42
COMMA == 44
MINUS == 45
SLASH == 47
DIGIT0 == 48
DIGIT9 == 57
SEMI == 59
LESS == 60
EQUALS == 61
GREATER == 62
QMARK == 63
UPPERA == 65
UPPERZ == 90
LBRACKET == 91
BACKSLASH == 92
UNDERSCORE == 95
BACKTICK == 96
LOWERA == 97
LOWERB == 98
LOWERF == 102
LOWERN == 110
LOWERR == 114
LOWERT == 116
LOWERV == 118
LOWERX == 120
LOWERZ == 122
PIPE == 124
TILDE == 126
FIRSTPRINT == 32
LASTPRINT == 126

\* ---------------------------------------------------------------------------
\* Bounds of the checked input spaces.
\* ---------------------------------------------------------------------------
MaxCodePoint == 520
MaxLenShell == 4
MaxLenCsv == 4
MaxLenC == 4
MaxLenTrigraph == 6
MaxLenEscape == 3
MaxLenFile == 3
MaxFiles == 2

\* ---------------------------------------------------------------------------
\* str helpers.
\* ---------------------------------------------------------------------------
Range(s) == {s[i] : i \in 1..Len(s)}

Strings(alphabet, n) == UNION {[1..k -> alphabet] : k \in 0..n}

\* Python's "sub in s" on str: sub occurs in s as a contiguous substring.
Contains(sub, s) ==
    \E i \in 1..(Len(s) - Len(sub) + 1) : SubSeq(s, i, i + Len(sub) - 1) = sub

\* str.replace(old, new) for a one-character old.
RECURSIVE replace(_, _, _)
replace(s, old, new) ==
    IF s = <<>> THEN <<>>
    ELSE (IF <<Head(s)>> = old THEN new ELSE <<Head(s)>>) \o replace(Tail(s), old, new)

\* ---------------------------------------------------------------------------
\* simple_escape_sequence and the character escapers.
\* ---------------------------------------------------------------------------

\* The dict literal.  Python reads the key '\?' as the two-character str
\* backslash + question mark ('\?' is not an escape sequence of Python).
simple_escape_sequence ==
    ( <<BEL>> :> <<BACKSLASH, LOWERA>> ) @@
    ( <<BS>> :> <<BACKSLASH, LOWERB>> ) @@
    ( <<HT>> :> <<BACKSLASH, LOWERT>> ) @@
    ( <<LF>> :> <<BACKSLASH, LOWERN>> ) @@
    ( <<VT>> :> <<BACKSLASH, LOWERV>> ) @@
    ( <<FF>> :> <<BACKSLASH, LOWERF>> ) @@
    ( <<CR>> :> <<BACKSLASH, LOWERR>> ) @@
    ( <<DQUOTE>> :> <<BACKSLASH, DQUOTE>> ) @@
    ( <<SQUOTE>> :> <<BACKSLASH, SQUOTE>> ) @@
    ( <<BACKSLASH, QMARK>> :> <<BACKSLASH, QMARK>> ) @@
    ( <<BACKSLASH>> :> <<BACKSLASH, BACKSLASH>> )

\* One digit of str.format's 'o' and 'X' presentations.
DigitChar(d) == IF d < 10 THEN DIGIT0 + d ELSE UPPERA + (d - 10)

\* The digits of n in the given base, most significant first, no padding.
RECURSIVE Digits(_, _)
Digits(n, base) ==
    IF n < base THEN <<DigitChar(n)>>
    ELSE Digits(n \div base, base) \o <<DigitChar(n % base)>>

\* The '0w' part of a format spec: zero-pad on the left to a minimum width.
RECURSIVE ZeroPad(_, _)
ZeroPad(digits, width) ==
    IF Len(digits) >= width THEN digits ELSE ZeroPad(<<DIGIT0>> \o digits, width)

\* ord(c)
ord(ch) == ch[1]

\* r'\{:03o}'.format(n)
FormatOctalMutant(n) == <<BACKSLASH>> \o ZeroPad(Digits(n, 8), 2)
FormatOctal(n) == <<BACKSLASH>> \o ZeroPad(Digits(n, 8), 3)

\* r'\x{:02X}'.format(n)
FormatHex(n) == <<BACKSLASH, LOWERX>> \o ZeroPad(Digits(n, 16), 2)

escape_char_to_octal(ch) ==
    IF ch \in DOMAIN simple_escape_sequence
    THEN simple_escape_sequence[ch]
    ELSE FormatOctal(ord(ch))

escape_char_to_hexadecimal(ch) ==
    IF ch \in DOMAIN simple_escape_sequence
    THEN simple_escape_sequence[ch]
    ELSE FormatHex(ord(ch))

\* ord(c) raises TypeError unless c has length 1; both escapers reach ord()
\* only for an argument that is not a key of simple_escape_sequence.
OrdRaises(ch) == ch \notin DOMAIN simple_escape_sequence /\ Len(ch) # 1

\* str.isprintable(): every character is printable (true of the empty str).
\* Below U+0378 the characters that are not printable are U+0000-U+001F,
\* U+007F-U+00A0 and U+00AD; the arguments checked stay below U+0378.
isprintable(s) ==
    \A i \in 1..Len(s) :
        ~ \/ s[i] <= 31
          \/ (s[i] >= 127 /\ s[i] <= 160)
          \/ s[i] = 173

escape_non_printable_char_to_octal(ch) ==
    IF isprintable(ch) THEN ch ELSE escape_char_to_octal(ch)

escape_non_printable_char_to_hexadecimal(ch) ==
    IF isprintable(ch) THEN ch ELSE escape_char_to_hexadecimal(ch)

\* ---------------------------------------------------------------------------
\* Regular-expression helpers.
\* ---------------------------------------------------------------------------

\* The pieces re.sub produces, joined in order.
RECURSIVE Concat(_)
Concat(pieces) ==
    IF pieces = <<>> THEN <<>> ELSE Head(pieces) \o Concat(Tail(pieces))

\* r'\\\1': a backslash followed by the matched character.
BackslashGroup1(x) == <<BACKSLASH, x>>

\* '[^\x20-\x7E]'
NonPrintableAscii(x) == x < FIRSTPRINT \/ x > LASTPRINT

\* The character class [!'()\-/<=>] of the trigraph pattern.
TrigraphThird == {BANG, SQUOTE, LPAREN, RPAREN, MINUS, SLASH, LESS, EQUALS, GREATER}

\* pattern3 matches at position i of s.
TrigraphAt(s, i) ==
    /\ i + 2 <= Len(s)
    /\ s[i] = QMARK
    /\ s[i + 1] = QMARK
    /\ s[i + 2] \in TrigraphThird

\* re.search(pattern3, s)
SearchTrigraph(s) == \E i \in 1..Len(s) : TrigraphAt(s, i)

\* re.sub(pattern3, r'?\\?\1', s): leftmost non-overlapping matches.
RECURSIVE SubTrigraphFrom(_, _)
SubTrigraphFrom(s, i) ==
    IF i > Len(s) THEN <<>>
    ELSE IF TrigraphAt(s, i)
         THEN <<QMARK, BACKSLASH, QMARK, s[i + 2]>> \o SubTrigraphFrom(s, i + 3)
         ELSE <<s[i]>> \o SubTrigraphFrom(s, i + 1)

\* re.sub(pattern3, r'?\\?\1', s, count=1): only the first match is replaced.
SubTrigraphMutant(s) ==
    IF SearchTrigraph(s)
    THEN LET i == CHOOSE j \in 1..Len(s) :
                      TrigraphAt(s, j) /\ \A k \in 1..(j - 1) : ~TrigraphAt(s, k)
         IN SubSeq(s, 1, i - 1) \o <<QMARK, BACKSLASH, QMARK, s[i + 2]>>
            \o SubSeq(s, i + 3, Len(s))
    ELSE s
SubTrigraph(s) == SubTrigraphFrom(s, 1)

\* ---------------------------------------------------------------------------
\* The quoting functions.
\* ---------------------------------------------------------------------------
literal(s) == s

shell_always_mutant(s) == <<SQUOTE>> \o replace(s, <<SQUOTE>>, <<BACKSLASH, SQUOTE>>) \o <<SQUOTE>>
shell_always(s) ==
    <<SQUOTE>> \o replace(s, <<SQUOTE>>, <<SQUOTE, BACKSLASH, SQUOTE, SQUOTE>>) \o <<SQUOTE>>

\* The character class of shell's pattern.
ShellSpecial ==
    {HT, LF, SPACE, DQUOTE, HASH, DOLLAR, PERCENT, AMP, SQUOTE, LPAREN, RPAREN,
     STAR, SEMI, LESS, EQUALS, GREATER, QMARK, LBRACKET, BACKSLASH, BACKTICK,
     PIPE, TILDE}

IsShellSpecialMutant(x) == x \in ShellSpecial \ {TILDE}
IsShellSpecial(x) == x \in ShellSpecial

shell(s) ==
    IF \E i \in 1..Len(s) : IsShellSpecial(s[i]) THEN shell_always(s) ELSE s

IsSpaceOrBackslash(x) == x \in {SPACE, BACKSLASH}

\* replacement2(match_object)
EscapeNonPrintable(x) == escape_char_to_octal(<<x>>)

\* re.sub(r'([ \\])', r'\\\1', s): every matching character is replaced.
SubSpaceBackslash(s) ==
    Concat([i \in 1..Len(s) |->
              IF IsSpaceOrBackslash(s[i]) THEN BackslashGroup1(s[i]) ELSE <<s[i]>>])

\* re.sub('([^\x20-\x7E])', replacement2, s)
SubNonPrintable(s) ==
    Concat([i \in 1..Len(s) |->
              IF NonPrintableAscii(s[i]) THEN EscapeNonPrintable(s[i]) ELSE <<s[i]>>])

\* escape with its two passes in the other order.
escape_mutant(s) == SubSpaceBackslash(SubNonPrintable(s))
escape(s) == SubNonPrintable(SubSpaceBackslash(s))

\* '(["\\])' without the backslash.
IsDquoteOrBackslashMutant(x) == x = DQUOTE
IsDquoteOrBackslash(x) == x \in {DQUOTE, BACKSLASH}

\* re.sub(r'(["\\])', r'\\\1', s)
SubDquoteBackslash(s) ==
    Concat([i \in 1..Len(s) |->
              IF IsDquoteOrBackslash(s[i]) THEN BackslashGroup1(s[i]) ELSE <<s[i]>>])

c(s) ==
    <<DQUOTE>> \o SubTrigraph(SubNonPrintable(SubDquoteBackslash(s))) \o <<DQUOTE>>

c_maybe_mutant(s) ==
    IF \/ \E i \in 1..Len(s) : IsDquoteOrBackslash(s[i])
       \/ \E i \in 1..Len(s) : NonPrintableAscii(s[i])
    THEN c(s)
    ELSE s
c_maybe(s) ==
    IF \/ \E i \in 1..Len(s) : IsDquoteOrBackslash(s[i])
       \/ \E i \in 1..Len(s) : NonPrintableAscii(s[i])
       \/ SearchTrigraph(s)
    THEN c(s)
    ELSE s

\* '[^A-Za-z0-9_]'
NotWord(x) ==
    ~ \/ (x >= UPPERA /\ x <= UPPERZ)
      \/ (x >= LOWERA /\ x <= LOWERZ)
      \/ (x >= DIGIT0 /\ x <= DIGIT9)
      \/ x = UNDERSCORE

pcre(s) ==
    Concat([i \in 1..Len(s) |->
              IF NotWord(s[i]) THEN BackslashGroup1(s[i]) ELSE <<s[i]>>])

\* string.whitespace
whitespace == <<SPACE, HT, LF, CR, VT, FF>>

default_field_separator == <<COMMA>>
default_record_separator == <<LF>>

csv_mutant(s, field_separator, record_separator) ==
    IF Contains(<<DQUOTE>>, s)
    THEN <<DQUOTE>> \o replace(s, <<DQUOTE>>, <<DQUOTE, DQUOTE>>) \o <<DQUOTE>>
    ELSE IF \/ Contains(record_separator, s)
            \/ (Len(s) > 0 /\ (\/ Contains(<<s[1]>>, whitespace)
                               \/ Contains(<<s[Len(s)]>>, whitespace)))
         THEN <<DQUOTE>> \o s \o <<DQUOTE>>
         ELSE s
csv(s, field_separator, record_separator) ==
    IF Contains(<<DQUOTE>>, s)
    THEN <<DQUOTE>> \o replace(s, <<DQUOTE>>, <<DQUOTE, DQUOTE>>) \o <<DQUOTE>>
    ELSE IF \/ Contains(field_separator, s)
            \/ Contains(record_separator, s)
            \/ (Len(s) > 0 /\ (\/ Contains(<<s[1]>>, whitespace)
                               \/ Contains(<<s[Len(s)]>>, whitespace)))
         THEN <<DQUOTE>> \o s \o <<DQUOTE>>
         ELSE s

valid_quoting_styles ==
    {"literal", "shell-always", "shell", "escape", "c", "c-maybe", "pcre", "csv"}

\* quoting_style_to_function_map[style](s)
quoting_style_to_function_map(style, s) ==
    CASE style = "literal" -> literal(s)
      [] style = "shell-always" -> shell_always(s)
      [] style = "shell" -> shell(s)
      [] style = "escape" -> escape(s)
      [] style = "c" -> c(s)
      [] style = "c-maybe" -> c_maybe(s)
      [] style = "pcre" -> pcre(s)
      [] style = "csv" -> csv(s, default_field_separator, default_record_separator)

quote(s, quoting_style) ==
    IF quoting_style \in valid_quoting_styles
    THEN quoting_style_to_function_map(quoting_style, s)
    ELSE s

\* ---------------------------------------------------------------------------
\* State.
\*   arg, called, result, exception :
\*                         one call of a library function: its argument, the
\*                         name of the function called ("none" before the
\*                         call), the value returned, and the exception
\*                         raised instead of a return ("none" if none).
\*   pc, options, quoting_style, delimiter, remaining_args, file_no, texts,
\*   file_data, unread, lines, idx, written, buffering, buffer,
\*   stderr_pending, stdout, status, finalizing :
\*                         one run of the program: the place main() has reached;
\*                         the options getopt has returned that the options
\*                         loop has not handled yet; the two mutable
\*                         settings; the FILE operands,
\*                         numbered (no operand is the one operand '-',
\*                         standard input); the number of operands taken up
\*                         so far; the decoded texts found behind them; the
\*                         text handed to quote_file_data for the operand
\*                         at hand (empty when none is); the
\*                         part of the text of the operand at hand not yet
\*                         read (a file is iterated line by line as the
\*                         loop of quote_lines asks for lines); the lines
\*                         handed to that loop so far; the number of them
\*                         printed in full; the number of writes
\*                         print_version() or print_help() has completed;
\*                         how sys.stdout is buffered; the text written to
\*                         sys.stdout that it still holds; whether
\*                         sys.stderr holds text it could not write; the
\*                         text the operating system has got on standard
\*                         output; the exit status; how far the
\*                         interpreter is with its exit.  The text on
\*                         standard error is not modelled.
\* ---------------------------------------------------------------------------
VARIABLES arg, called, result, exception,
          pc, options, quoting_style, delimiter, remaining_args, file_no, texts,
          file_data, unread, lines, idx, written, buffering, buffer,
          stderr_pending, stdout, status, finalizing

libvars == <<arg, called, result, exception>>
mainvars == <<pc, options, quoting_style, delimiter, remaining_args, file_no, texts,
          file_data, unread, lines, idx, written, buffering, buffer,
          stderr_pending, stdout, status, finalizing>>
vars == <<arg, called, result, exception,
          pc, options, quoting_style, delimiter, remaining_args, file_no, texts,
          file_data, unread, lines, idx, written, buffering, buffer,
          stderr_pending, stdout, status, finalizing>>

\* main() is not running.
MainIdle ==
    /\ pc = "idle"
    /\ options = <<>>
    /\ quoting_style = "literal"
    /\ delimiter = <<LF>>
    /\ remaining_args = <<>>
    /\ file_no = 0
    /\ texts = <<>>
    /\ file_data = <<>>
    /\ unread = <<>>
    /\ lines = <<>>
    /\ idx = 0
    /\ written = 0
    /\ buffering = "block"
    /\ buffer = <<>>
    /\ stderr_pending = FALSE
    /\ stdout = <<>>
    /\ status = 0
    /\ finalizing = "no"

\* No library call is made.
LibIdle ==
    /\ arg = <<>>
    /\ called = "idle"
    /\ result = <<>>
    /\ exception = "none"

\* A library function is about to be called on one of the given arguments.
InitLib(inputs) ==
    /\ arg \in inputs
    /\ called = "none"
    /\ result = <<>>
    /\ exception = "none"
    /\ MainIdle

Return(name, value) ==
    /\ called = "none"
    /\ called' = name
    /\ result' = value
    /\ UNCHANGED <<arg, exception, mainvars>>

\* The call ends with an exception instead of a value.
Raise(name, exc) ==
    /\ called = "none"
    /\ called' = name
    /\ exception' = exc
    /\ UNCHANGED <<arg, result, mainvars>>

CallLiteral == Return("literal", literal(arg))
CallShellAlways == Return("shell_always", shell_always(arg))
CallShell == Return("shell", shell(arg))
CallEscape == Return("escape", escape(arg))
CallC == Return("c", c(arg))
CallCMaybe == Return("c_maybe", c_maybe(arg))
CallPcre == Return("pcre", pcre(arg))
CallCsv == Return("csv", csv(arg, default_field_separator, default_record_separator))

CallQuote ==
    \E style \in valid_quoting_styles \cup {"nosuchstyle"} :
        Return("quote", quote(arg, style))

CallEscapeCharToOctal ==
    IF OrdRaises(arg)
    THEN Raise("escape_char_to_octal", "TypeError")
    ELSE Return("escape_char_to_octal", escape_char_to_octal(arg))

CallEscapeCharToHexadecimal ==
    IF OrdRaises(arg)
    THEN Raise("escape_char_to_hexadecimal", "TypeError")
    ELSE Return("escape_char_to_hexadecimal", escape_char_to_hexadecimal(arg))

CallEscapeNonPrintableCharToOctal ==
    IF ~isprintable(arg) /\ OrdRaises(arg)
    THEN Raise("escape_non_printable_char_to_octal", "TypeError")
    ELSE Return("escape_non_printable_char_to_octal",
                escape_non_printable_char_to_octal(arg))

CallEscapeNonPrintableCharToHexadecimal ==
    IF ~isprintable(arg) /\ OrdRaises(arg)
    THEN Raise("escape_non_printable_char_to_hexadecimal", "TypeError")
    ELSE Return("escape_non_printable_char_to_hexadecimal",
                escape_non_printable_char_to_hexadecimal(arg))

NextLib ==
    \/ CallLiteral
    \/ CallShellAlways
    \/ CallShell
    \/ CallEscape
    \/ CallC
    \/ CallCMaybe
    \/ CallPcre
    \/ CallCsv
    \/ CallQuote
    \/ CallEscapeCharToOctal
    \/ CallEscapeCharToHexadecimal
    \/ CallEscapeNonPrintableCharToOctal
    \/ CallEscapeNonPrintableCharToHexadecimal

\* Arguments of the shell styles: short strings over quotes, backslash, blank
\* and an ordinary letter.
ShellAlphabet == {LOWERA, SQUOTE, BACKSLASH, SPACE}
SpecShellAlways == InitLib(Strings(ShellAlphabet, MaxLenShell)) /\ [][NextLib]_vars

\* ---------------------------------------------------------------------------
\* C1: shell_always round trip.
\* ---------------------------------------------------------------------------

\* A POSIX shell word parser restricted to the three rules of the claim:
\* text inside '...' is literal, a backslash outside quotes makes the next
\* character literal, adjacent pieces concatenate.  Unquoted blanks separate
\* words.  ok is FALSE for an unterminated quote or a dangling backslash.
RECURSIVE ShellParseFrom(_, _, _, _, _, _)
ShellParseFrom(text, i, inquote, cur, started, words) ==
    IF i > Len(text)
    THEN [ok |-> ~inquote, words |-> IF started THEN Append(words, cur) ELSE words]
    ELSE IF inquote
         THEN IF text[i] = SQUOTE
              THEN ShellParseFrom(text, i + 1, FALSE, cur, TRUE, words)
              ELSE ShellParseFrom(text, i + 1, TRUE, Append(cur, text[i]), TRUE, words)
         ELSE IF text[i] = SQUOTE
              THEN ShellParseFrom(text, i + 1, TRUE, cur, TRUE, words)
              ELSE IF text[i] = BACKSLASH
                   THEN IF i + 1 > Len(text)
                        THEN [ok |-> FALSE, words |-> words]
                        ELSE ShellParseFrom(text, i + 2, FALSE,
                                            Append(cur, text[i + 1]), TRUE, words)
                   ELSE IF text[i] \in {SPACE, HT, LF}
                        THEN ShellParseFrom(text, i + 1, FALSE, <<>>, FALSE,
                                            IF started THEN Append(words, cur) ELSE words)
                        ELSE ShellParseFrom(text, i + 1, FALSE,
                                            Append(cur, text[i]), TRUE, words)

ShellParse(text) == ShellParseFrom(text, 1, FALSE, <<>>, FALSE, <<>>)

\* C1: parsing shell_always(s) as a shell word list yields exactly the one
\* word s, for every s (empty, with single quotes, with backslashes).
C1_ShellAlwaysRoundTrip ==
    called = "shell_always" =>
        /\ ShellParse(result).ok
        /\ ShellParse(result).words = <<arg>>

\* Witness: shell_always has returned for an argument holding both a single
\* quote and a backslash.
C1_Witness ==
    /\ called = "shell_always"
    /\ SQUOTE \in Range(arg)
    /\ BACKSLASH \in Range(arg)
    /\ Len(result) > Len(arg) + 2

\* ---------------------------------------------------------------------------
\* C2: csv round trip.
\* ---------------------------------------------------------------------------
CsvAlphabet == {LOWERA, DQUOTE, COMMA, LF, CR, SPACE, HT}
SpecCsv == InitLib(Strings(CsvAlphabet, MaxLenCsv)) /\ [][NextLib]_vars

\* A CSV reader with field separator ',' and record separator newline: a
\* field starting with '"' runs to the matching closing quote, '""' decoded
\* as one '"'; an unquoted field runs to the next separator.  The fields of
\* all records are returned in order.  ok is FALSE for an unterminated quoted
\* field or for text between a closing quote and the next separator.
RECURSIVE CsvReadFrom(_, _, _, _, _)
CsvReadFrom(text, i, mode, cur, fields) ==
    IF i > Len(text)
    THEN [ok |-> mode # "quoted", fields |-> Append(fields, cur)]
    ELSE IF mode = "start" /\ text[i] = DQUOTE
    THEN CsvReadFrom(text, i + 1, "quoted", cur, fields)
    ELSE IF mode = "quoted"
    THEN IF text[i] = DQUOTE
         THEN IF i + 1 <= Len(text) /\ text[i + 1] = DQUOTE
              THEN CsvReadFrom(text, i + 2, "quoted", Append(cur, DQUOTE), fields)
              ELSE CsvReadFrom(text, i + 1, "closed", cur, fields)
         ELSE CsvReadFrom(text, i + 1, "quoted", Append(cur, text[i]), fields)
    ELSE IF text[i] \in {COMMA, LF}
    THEN CsvReadFrom(text, i + 1, "start", <<>>, Append(fields, cur))
    ELSE IF mode = "closed"
    THEN [ok |-> FALSE, fields |-> fields]
    ELSE CsvReadFrom(text, i + 1, "unquoted", Append(cur, text[i]), fields)

CsvRead(text) == CsvReadFrom(text, 1, "start", <<>>, <<>>)

\* C2: a CSV reader reads csv(s) as exactly one field whose value is s.
C2_CsvRoundTrip ==
    called = "csv" =>
        /\ CsvRead(result).ok
        /\ CsvRead(result).fields = <<arg>>

\* Witness: csv has quoted an argument holding a separator and a double quote.
C2_Witness ==
    /\ called = "csv"
    /\ COMMA \in Range(arg)
    /\ DQUOTE \in Range(arg)
    /\ Len(result) >= Len(arg) + 3

\* ---------------------------------------------------------------------------
\* C3, C10: c and c_maybe.
\* ---------------------------------------------------------------------------
\* Arguments of c and c_maybe: '?', '!', backslash, double quote, U+0001,
\* newline, the digit '1', U+007F, U+00E9 and U+0200 (above 0o777).
CAlphabet ==
    {QMARK, BANG, BACKSLASH, DQUOTE, 1, LF, 49, 127, 233, 512}
SpecC == InitLib(Strings(CAlphabet, MaxLenC)) /\ [][NextLib]_vars

\* The third characters of the nine trigraphs the claims list.
ClaimTrigraphThird == {33, 39, 40, 41, 45, 47, 60, 61, 62}

\* text holds '??' immediately followed by one of ! ' ( ) - / < = >.
HasTrigraph(text) ==
    \E i \in 1..(Len(text) - 2) :
        /\ text[i] = QMARK
        /\ text[i + 1] = QMARK
        /\ text[i + 2] \in ClaimTrigraphThird

\* s holds a double quote, a backslash, a character outside 0x20-0x7E or a
\* trigraph-forming sequence.
RequiresEscaping(s) ==
    \/ DQUOTE \in Range(s)
    \/ BACKSLASH \in Range(s)
    \/ \E x \in Range(s) : x \notin 32..126
    \/ HasTrigraph(s)

\* C3: c_maybe(s) = c(s) when s requires escaping; otherwise c_maybe(s) = s
\* and c(s) is s between double quotes.
C3_CMaybeVersusC ==
    /\ called = "c_maybe" =>
          IF RequiresEscaping(arg)
          THEN result = c(arg) /\ result # arg
          ELSE result = arg
    /\ called = "c" =>
          (~RequiresEscaping(arg) => result = <<DQUOTE>> \o arg \o <<DQUOTE>>)

\* Witness: c_maybe has returned for an argument whose only reason for
\* escaping is a trigraph.
C3_Witness ==
    /\ called = "c_maybe"
    /\ arg = <<QMARK, QMARK, BANG>>
    /\ result = <<DQUOTE, QMARK, BACKSLASH, QMARK, BANG, DQUOTE>>

\* The text between the surrounding double quotes.
Body(text) == SubSeq(text, 2, Len(text) - 1)

IsOctalDigit(x) == x \in 48..55

\* Decoding by C string-literal rules: a backslash followed by \ " ? or a
\* mnemonic letter, or by exactly three octal digits.  ok is FALSE for any
\* other backslash sequence and for a bare double quote.
RECURSIVE CDecodeFrom(_, _, _)
CDecodeFrom(text, i, acc) ==
    IF i > Len(text) THEN [ok |-> TRUE, str |-> acc]
    ELSE IF text[i] = DQUOTE THEN [ok |-> FALSE, str |-> acc]
    ELSE IF text[i] # BACKSLASH THEN CDecodeFrom(text, i + 1, Append(acc, text[i]))
    ELSE IF i + 1 > Len(text) THEN [ok |-> FALSE, str |-> acc]
    ELSE IF text[i + 1] \in {BACKSLASH, DQUOTE, QMARK}
    THEN CDecodeFrom(text, i + 2, Append(acc, text[i + 1]))
    ELSE IF text[i + 1] \in {LOWERA, LOWERB, LOWERT, LOWERN, LOWERV, LOWERF, LOWERR}
    THEN CDecodeFrom(text, i + 2,
             Append(acc, CASE text[i + 1] = LOWERA -> 7
                           [] text[i + 1] = LOWERB -> 8
                           [] text[i + 1] = LOWERT -> 9
                           [] text[i + 1] = LOWERN -> 10
                           [] text[i + 1] = LOWERV -> 11
                           [] text[i + 1] = LOWERF -> 12
                           [] text[i + 1] = LOWERR -> 13))
    ELSE IF /\ i + 3 <= Len(text)
            /\ IsOctalDigit(text[i + 1])
            /\ IsOctalDigit(text[i + 2])
            /\ IsOctalDigit(text[i + 3])
    THEN CDecodeFrom(text, i + 4,
             Append(acc, (text[i + 1] - 48) * 64 + (text[i + 2] - 48) * 8
                         + (text[i + 3] - 48)))
    ELSE [ok |-> FALSE, str |-> acc]

CDecode(text) == CDecodeFrom(text, 1, <<>>)

\* C10: for s with all code points at most 0o777, decoding the body of c(s)
\* by C string-literal rules recovers s.
C10_CDecodable ==
    (called = "c" /\ \A x \in Range(arg) : x <= 511) =>
        /\ Len(result) >= 2
        /\ result[1] = DQUOTE
        /\ result[Len(result)] = DQUOTE
        /\ CDecode(Body(result)).ok
        /\ CDecode(Body(result)).str = arg

\* Witness: c has returned for an octal escape directly followed by a digit.
C10_Witness ==
    /\ called = "c"
    /\ arg = <<BACKSLASH, 1, 49>>
    /\ result = <<DQUOTE, BACKSLASH, BACKSLASH, BACKSLASH, 48, 48, 49, 49, DQUOTE>>

\* ---------------------------------------------------------------------------
\* C4: trigraph guard.
\* ---------------------------------------------------------------------------
TrigraphAlphabet == {QMARK, BANG, SLASH, BACKSLASH}
SpecTrigraph == InitLib(Strings(TrigraphAlphabet, MaxLenTrigraph)) /\ [][NextLib]_vars

\* C4: the body of c(s) never holds '??' followed by one of ! ' ( ) - / < = >,
\* and c("??!") is "?\?!" between double quotes.
C4_TrigraphGuard ==
    called = "c" =>
        /\ ~HasTrigraph(Body(result))
        /\ arg = <<QMARK, QMARK, BANG>> =>
               result = <<DQUOTE, QMARK, BACKSLASH, QMARK, BANG, DQUOTE>>

\* Witness: c has returned for two adjacent trigraphs, both guarded.
C4_Witness ==
    /\ called = "c"
    /\ arg = <<QMARK, QMARK, BANG, QMARK, QMARK, SLASH>>
    /\ result = <<DQUOTE, QMARK, BACKSLASH, QMARK, BANG,
                  QMARK, BACKSLASH, QMARK, SLASH, DQUOTE>>

\* ---------------------------------------------------------------------------
\* C5, C6, C7: single characters.
\* ---------------------------------------------------------------------------
CharInputs ==
    {<<x>> : x \in 0..MaxCodePoint} \cup Strings({LOWERA, TILDE, MINUS}, 2)
SpecChar == InitLib(CharInputs) /\ [][NextLib]_vars

\* The 22 special characters the claim lists: tab, newline, space,
\* " # $ % & ' ( ) * ; < = > ? [ \ ` | ~.
ClaimShellSpecial ==
    {9, 10, 32, 34, 35, 36, 37, 38, 39, 40, 41, 42, 59, 60, 61, 62, 63, 91, 92,
     96, 124, 126}

\* C5: shell(s) = s when s holds none of the 22 special characters, and
\* shell(s) = shell_always(s) (s between single quotes, quotes escaped) when
\* it holds one.
C5_ShellConditional ==
    called = "shell" =>
        IF Range(arg) \cap ClaimShellSpecial = {}
        THEN result = arg
        ELSE /\ result = shell_always(arg)
             /\ result # arg
             /\ ShellParse(result).words = <<arg>>

\* Witness: shell has quoted a lone '~', the last character of the class.
C5_Witness ==
    /\ called = "shell"
    /\ arg = <<TILDE>>
    /\ result = <<SQUOTE, TILDE, SQUOTE>>

\* The 11 characters of the simple-escape table and the second character of
\* the mnemonic of each.
ClaimSimpleEscape ==
    (7 :> LOWERA) @@ (8 :> LOWERB) @@ (9 :> LOWERT) @@ (10 :> LOWERN) @@
    (11 :> LOWERV) @@ (12 :> LOWERF) @@ (13 :> LOWERR) @@ (34 :> 34) @@
    (39 :> 39) @@ (63 :> 63) @@ (92 :> 92)

\* C6: for each of the 11 characters of the simple-escape table, both
\* escapers return the two-character mnemonic.
C6_SimpleEscapeLookup ==
    (/\ called \in {"escape_char_to_octal", "escape_char_to_hexadecimal"}
     /\ Len(arg) = 1
     /\ arg[1] \in DOMAIN ClaimSimpleEscape)
        => /\ exception = "none"
           /\ result = <<BACKSLASH, ClaimSimpleEscape[arg[1]]>>

\* The value of a digit character in bases up to 16 (uppercase), or -1.
DigitValue(x) ==
    IF x \in 48..57 THEN x - 48 ELSE IF x \in 65..70 THEN x - 55 ELSE -1

\* text is a backslash and exactly three octal digits that encode n.
IsOctalEscapeOf(text, n) ==
    /\ Len(text) = 4
    /\ text[1] = BACKSLASH
    /\ \A i \in 2..4 : DigitValue(text[i]) \in 0..7
    /\ DigitValue(text[2]) * 64 + DigitValue(text[3]) * 8 + DigitValue(text[4]) = n

\* text is '\x' and exactly two uppercase hexadecimal digits that encode n.
IsHexEscapeOf(text, n) ==
    /\ Len(text) = 4
    /\ text[1] = BACKSLASH
    /\ text[2] = LOWERX
    /\ \A i \in 3..4 : DigitValue(text[i]) \in 0..15
    /\ DigitValue(text[3]) * 16 + DigitValue(text[4]) = n

\* C7 as stated: for every character outside the simple-escape table, the
\* octal escaper returns a backslash and exactly 3 octal digits and the
\* hexadecimal escaper '\x' and exactly 2 uppercase hexadecimal digits.
C7_FixedWidthAllCodePoints ==
    /\ (called = "escape_char_to_octal" /\ Len(arg) = 1
        /\ arg[1] \notin DOMAIN ClaimSimpleEscape)
           => IsOctalEscapeOf(result, arg[1])
    /\ (called = "escape_char_to_hexadecimal" /\ Len(arg) = 1
        /\ arg[1] \notin DOMAIN ClaimSimpleEscape)
           => IsHexEscapeOf(result, arg[1])

\* C7 amended: the octal escape has exactly 3 digits for code points up to
\* 0o777 and the hexadecimal escape exactly 2 digits for code points up to
\* 0xFF; above these the escape has more digits.
C7_FixedWidthInRange ==
    /\ (called = "escape_char_to_octal" /\ Len(arg) = 1
        /\ arg[1] \notin DOMAIN ClaimSimpleEscape)
           => IF arg[1] <= 511
              THEN IsOctalEscapeOf(result, arg[1])
              ELSE Len(result) > 4
    /\ (called = "escape_char_to_hexadecimal" /\ Len(arg) = 1
        /\ arg[1] \notin DOMAIN ClaimSimpleEscape)
           => IF arg[1] <= 255
              THEN IsHexEscapeOf(result, arg[1])
              ELSE Len(result) > 4

\* Witness: the octal escaper has zero-padded a code point below 8.
C7_Witness ==
    /\ called = "escape_char_to_octal"
    /\ arg = <<1>>
    /\ result = <<BACKSLASH, 48, 48, 49>>

\* ---------------------------------------------------------------------------
\* C9: escape.
\* ---------------------------------------------------------------------------
\* Arguments of escape: 'a', blank, backslash, U+0001, newline, U+007F, U+0200.
EscapeAlphabet == {LOWERA, SPACE, BACKSLASH, 1, LF, 127, 512}
SpecEscape == InitLib(Strings(EscapeAlphabet, MaxLenEscape)) /\ [][NextLib]_vars

\* The single-pass character map of the claim.
EscapeOneChar(x) ==
    IF x = SPACE THEN <<BACKSLASH, SPACE>>
    ELSE IF x = BACKSLASH THEN <<BACKSLASH, BACKSLASH>>
    ELSE IF x < 32 \/ x > 126 THEN escape_char_to_octal(<<x>>)
    ELSE <<x>>

\* C9: escape(s) is the character-wise map of s (a backslash inserted by the
\* first pass is not escaped again) and holds only characters in 0x20-0x7E.
C9_EscapeSinglePass ==
    called = "escape" =>
        /\ result = Concat([i \in 1..Len(arg) |-> EscapeOneChar(arg[i])])
        /\ \A x \in Range(result) : x \in 32..126

\* Witness: escape has returned for a blank, a backslash and a control
\* character.
C9_Witness ==
    /\ called = "escape"
    /\ arg = <<SPACE, BACKSLASH, 1>>
    /\ result = <<BACKSLASH, SPACE, BACKSLASH, BACKSLASH, BACKSLASH, 48, 48, 49>>

\* ---------------------------------------------------------------------------
\* main(): the line-by-line driver.
\* ---------------------------------------------------------------------------

\* os.path.basename(argv[0]) when the program is run as 'quote'.
program_name == <<113, 117, 111, 116, 101>>

\* What print_version() prints for that program name.
version_text ==
    <<113, 117, 111, 116, 101, 32, 50, 48, 49, 49, 45, 49, 48, 45, 50, 51,
      10, 87, 114, 105, 116, 116, 101, 110, 32, 98, 121, 32, 83, 116, 101, 118,
      101, 32, 87, 97, 114, 100, 10>>

\* What print_help() prints for that program name.
help_text ==
    <<85, 115, 97, 103, 101, 58, 32, 113, 117, 111, 116, 101, 32, 91, 79, 80,
      84, 73, 79, 78, 93, 46, 46, 46, 32, 91, 70, 73, 76, 69, 93, 46,
      46, 46, 10, 81, 117, 111, 116, 101, 32, 116, 104, 101, 32, 108, 105, 110,
      101, 115, 32, 111, 102, 32, 70, 73, 76, 69, 32, 97, 99, 99, 111, 114,
      100, 105, 110, 103, 32, 116, 111, 32, 97, 32, 113, 117, 111, 116, 105, 110,
      103, 32, 115, 116, 121, 108, 101, 46, 10, 10, 73, 102, 32, 70, 73, 76,
      69, 32, 105, 115, 32, 97, 98, 115, 101, 110, 116, 44, 32, 111, 114, 32,
      105, 102, 32, 70, 73, 76, 69, 32, 105, 115, 32, 39, 45, 39, 44, 32,
      114, 101, 97, 100, 32, 115, 116, 97, 110, 100, 97, 114, 100, 32, 105, 110,
      112, 117, 116, 46, 10, 10, 79, 80, 84, 73, 79, 78, 83, 10, 10, 45,
      86, 44, 32, 45, 45, 118, 101, 114, 115, 105, 111, 110, 10, 32, 32, 32,
      32, 80, 114, 105, 110, 116, 32, 116, 104, 101, 32, 118, 101, 114, 115, 105,
      111, 110, 32, 105, 110, 102, 111, 114, 109, 97, 116, 105, 111, 110, 32, 97,
      110, 100, 32, 101, 120, 105, 116, 46, 10, 10, 45, 104, 44, 32, 45, 45,
      104, 101, 108, 112, 10, 32, 32, 32, 32, 80, 114, 105, 110, 116, 32, 116,
      104, 105, 115, 32, 109, 101, 115, 115, 97, 103, 101, 32, 97, 110, 100, 32,
      101, 120, 105, 116, 46, 10, 10, 45, 113, 44, 32, 45, 45, 113, 117, 111,
      116, 105, 110, 103, 45, 115, 116, 121, 108, 101, 61, 83, 84, 89, 76, 69,
      10, 32, 32, 32, 32, 85, 115, 101, 32, 113, 117, 111, 116, 105, 110, 103,
      32, 115, 116, 121, 108, 101, 32, 83, 84, 89, 76, 69, 32, 116, 111, 32,
      113, 117, 111, 116, 101, 32, 108, 105, 110, 101, 115, 46, 32, 83, 101, 101,
      32, 98, 101, 108, 111, 119, 32, 102, 111, 114, 32, 100, 101, 115, 99, 114,
      105, 112, 116, 105, 111, 110, 115, 32, 111, 102, 32, 97, 108, 108, 32, 113,
      117, 111, 116, 105, 110, 103, 32, 115, 116, 121, 108, 101, 115, 46, 10, 32,
      32, 32, 32, 40, 100, 101, 102, 97, 117, 108, 116, 58, 32, 108, 105, 116,
      101, 114, 97, 108, 41, 10, 32, 32, 32, 32, 40, 118, 97, 108, 105, 100,
      58, 32, 99, 44, 99, 45, 109, 97, 121, 98, 101, 44, 99, 115, 118, 44,
      101, 115, 99, 97, 112, 101, 44, 108, 105, 116, 101, 114, 97, 108, 44, 112,
      99, 114, 101, 44, 115, 104, 101, 108, 108, 44, 115, 104, 101, 108, 108, 45,
      97, 108, 119, 97, 121, 115, 41, 10, 10, 45, 48, 44, 32, 45, 45, 110,
      117, 108, 108, 10, 32, 32, 32, 32, 85, 115, 101, 32, 78, 85, 76, 76,
      32, 97, 115, 32, 116, 104, 101, 32, 108, 105, 110, 101, 32, 100, 101, 108,
      105, 109, 105, 116, 101, 114, 32, 105, 110, 115, 116, 101, 97, 100, 32, 111,
      102, 32, 78, 69, 87, 76, 73, 78, 69, 46, 10, 10, 81, 85, 79, 84,
      73, 78, 71, 32, 83, 84, 89, 76, 69, 83, 10, 10, 39, 99, 39, 32,
      58, 32, 81, 117, 111, 116, 101, 32, 116, 104, 101, 32, 115, 116, 114, 105,
      110, 103, 32, 102, 111, 114, 32, 97, 32, 67, 32, 115, 116, 114, 105, 110,
      103, 32, 108, 105, 116, 101, 114, 97, 108, 46, 32, 32, 69, 115, 99, 97,
      112, 101, 32, 110, 111, 110, 45, 112, 114, 105, 110, 116, 97, 98, 108, 101,
      32, 99, 104, 97, 114, 97, 99, 116, 101, 114, 115, 44, 32, 100, 111, 117,
      98, 108, 101, 32, 113, 117, 111, 116, 101, 115, 44, 32, 98, 97, 99, 107,
      115, 108, 97, 115, 104, 101, 115, 44, 32, 97, 110, 100, 32, 116, 114, 105,
      103, 114, 97, 112, 104, 115, 44, 32, 97, 110, 100, 32, 115, 117, 114, 114,
      111, 117, 110, 100, 32, 116, 104, 101, 32, 114, 101, 115, 117, 108, 116, 32,
      119, 105, 116, 104, 32, 100, 111, 117, 98, 108, 101, 32, 113, 117, 111, 116,
      101, 115, 46, 10, 10, 39, 99, 45, 109, 97, 121, 98, 101, 39, 32, 58,
      32, 81, 117, 111, 116, 101, 32, 116, 104, 101, 32, 115, 116, 114, 105, 110,
      103, 32, 40, 105, 110, 32, 115, 111, 109, 101, 32, 99, 97, 115, 101, 115,
      41, 32, 102, 111, 114, 32, 97, 32, 67, 32, 115, 116, 114, 105, 110, 103,
      32, 108, 105, 116, 101, 114, 97, 108, 46, 32, 32, 69, 115, 99, 97, 112,
      101, 32, 110, 111, 110, 45, 112, 114, 105, 110, 116, 97, 98, 108, 101, 32,
      99, 104, 97, 114, 97, 99, 116, 101, 114, 115, 44, 32, 100, 111, 117, 98,
      108, 101, 32, 113, 117, 111, 116, 101, 115, 44, 32, 98, 97, 99, 107, 115,
      108, 97, 115, 104, 101, 115, 44, 32, 97, 110, 100, 32, 116, 114, 105, 103,
      114, 97, 112, 104, 115, 44, 32, 97, 110, 100, 32, 115, 117, 114, 114, 111,
      117, 110, 100, 32, 116, 104, 101, 32, 114, 101, 115, 117, 108, 116, 32, 119,
      105, 116, 104, 32, 100, 111, 117, 98, 108, 101, 32, 113, 117, 111, 116, 101,
      115, 46, 32, 32, 73, 102, 32, 110, 111, 32, 99, 104, 97, 114, 97, 99,
      116, 101, 114, 115, 32, 119, 101, 114, 101, 32, 101, 115, 99, 97, 112, 101,
      100, 44, 32, 116, 104, 101, 32, 111, 114, 105, 103, 105, 110, 97, 108, 32,
      115, 116, 114, 105, 110, 103, 32, 105, 115, 32, 114, 101, 116, 117, 114, 110,
      101, 100, 46, 10, 10, 39, 99, 115, 118, 39, 32, 58, 32, 81, 117, 111,
      116, 101, 32, 116, 104, 101, 32, 115, 116, 114, 105, 110, 103, 32, 40, 105,
      110, 32, 115, 111, 109, 101, 32, 99, 97, 115, 101, 115, 41, 32, 102, 111,
      114, 32, 97, 32, 67, 83, 86, 32, 102, 105, 101, 108, 100, 46, 32, 32,
      73, 102, 32, 116, 104, 101, 32, 115, 116, 114, 105, 110, 103, 32, 99, 111,
      110, 116, 97, 105, 110, 115, 32, 97, 32, 100, 111, 117, 98, 108, 101, 32,
      113, 117, 111, 116, 101, 44, 32, 116, 104, 101, 110, 32, 101, 115, 99, 97,
      112, 101, 32, 100, 111, 117, 98, 108, 101, 32, 113, 117, 111, 116, 101, 115,
      44, 32, 97, 110, 100, 32, 115, 117, 114, 114, 111, 117, 110, 100, 32, 116,
      104, 101, 32, 114, 101, 115, 117, 108, 116, 32, 119, 105, 116, 104, 32, 100,
      111, 117, 98, 108, 101, 32, 113, 117, 111, 116, 101, 115, 46, 32, 32, 73,
      102, 32, 116, 104, 101, 32, 115, 116, 114, 105, 110, 103, 32, 99, 111, 110,
      116, 97, 105, 110, 115, 32, 97, 32, 102, 105, 101, 108, 100, 32, 115, 101,
      112, 97, 114, 97, 116, 111, 114, 44, 32, 99, 111, 110, 116, 97, 105, 110,
      115, 32, 97, 32, 114, 101, 99, 111, 114, 100, 32, 115, 101, 112, 97, 114,
      97, 116, 111, 114, 44, 32, 98, 101, 103, 105, 110, 115, 32, 119, 105, 116,
      104, 32, 119, 104, 105, 116, 101, 115, 112, 97, 99, 101, 44, 32, 111, 114,
      32, 101, 110, 100, 115, 32, 119, 105, 116, 104, 32, 119, 104, 105, 116, 101,
      115, 112, 97, 99, 101, 44, 32, 116, 104, 101, 110, 32, 115, 117, 114, 114,
      111, 117, 110, 100, 32, 116, 104, 101, 32, 114, 101, 115, 117, 108, 116, 32,
      119, 105, 116, 104, 32, 100, 111, 117, 98, 108, 101, 32, 113, 117, 111, 116,
      101, 115, 46, 10, 10, 39, 101, 115, 99, 97, 112, 101, 39, 32, 58, 32,
      69, 115, 99, 97, 112, 101, 32, 110, 111, 110, 45, 112, 114, 105, 110, 116,
      97, 98, 108, 101, 32, 99, 104, 97, 114, 97, 99, 116, 101, 114, 115, 44,
      32, 115, 112, 97, 99, 101, 115, 44, 32, 97, 110, 100, 32, 98, 97, 99,
      107, 115, 108, 97, 115, 104, 101, 115, 46, 10, 10, 39, 108, 105, 116, 101,
      114, 97, 108, 39, 32, 58, 32, 68, 111, 32, 110, 111, 116, 32, 113, 117,
      111, 116, 101, 32, 116, 104, 101, 32, 115, 116, 114, 105, 110, 103, 46, 10,
      10, 39, 112, 99, 114, 101, 39, 32, 58, 32, 69, 115, 99, 97, 112, 101,
      32, 110, 111, 110, 45, 97, 108, 112, 104, 97, 110, 117, 109, 101, 114, 105,
      99, 32, 99, 104, 97, 114, 97, 99, 116, 101, 114, 115, 32, 97, 110, 100,
      32, 110, 111, 110, 45, 117, 110, 100, 101, 114, 115, 99, 111, 114, 101, 32,
      99, 104, 97, 114, 97, 99, 116, 101, 114, 115, 32, 102, 111, 114, 32, 97,
      32, 80, 101, 114, 108, 32, 67, 111, 109, 112, 97, 116, 105, 98, 108, 101,
      32, 82, 101, 103, 117, 108, 97, 114, 32, 69, 120, 112, 114, 101, 115, 115,
      105, 111, 110, 32, 40, 80, 67, 82, 69, 41, 46, 10, 10, 39, 115, 104,
      101, 108, 108, 39, 32, 58, 32, 81, 117, 111, 116, 101, 32, 116, 104, 101,
      32, 115, 116, 114, 105, 110, 103, 32, 40, 105, 110, 32, 115, 111, 109, 101,
      32, 99, 97, 115, 101, 115, 41, 32, 102, 111, 114, 32, 97, 32, 115, 104,
      101, 108, 108, 46, 32, 32, 73, 102, 32, 116, 104, 101, 32, 115, 116, 114,
      105, 110, 103, 32, 99, 111, 110, 116, 97, 105, 110, 115, 32, 115, 112, 101,
      99, 105, 97, 108, 32, 99, 104, 97, 114, 97, 99, 116, 101, 114, 115, 32,
      115, 112, 101, 99, 105, 102, 105, 101, 100, 32, 98, 121, 32, 116, 104, 101,
      32, 80, 79, 83, 73, 88, 46, 49, 45, 50, 48, 48, 56, 32, 115, 116,
      97, 110, 100, 97, 114, 100, 44, 32, 116, 104, 101, 110, 32, 113, 117, 111,
      116, 101, 32, 116, 104, 101, 32, 115, 116, 114, 105, 110, 103, 32, 102, 111,
      114, 32, 97, 32, 115, 104, 101, 108, 108, 46, 32, 32, 60, 104, 116, 116,
      112, 58, 47, 47, 112, 117, 98, 115, 46, 111, 112, 101, 110, 103, 114, 111,
      117, 112, 46, 111, 114, 103, 47, 111, 110, 108, 105, 110, 101, 112, 117, 98,
      115, 47, 57, 54, 57, 57, 57, 49, 57, 55, 57, 57, 47, 117, 116, 105,
      108, 105, 116, 105, 101, 115, 47, 86, 51, 95, 99, 104, 97, 112, 48, 50,
      46, 104, 116, 109, 108, 35, 116, 97, 103, 95, 49, 56, 95, 48, 50, 62,
      10, 10, 39, 115, 104, 101, 108, 108, 45, 97, 108, 119, 97, 121, 115, 39,
      32, 58, 32, 81, 117, 111, 116, 101, 32, 116, 104, 101, 32, 115, 116, 114,
      105, 110, 103, 32, 40, 105, 110, 32, 97, 108, 108, 32, 99, 97, 115, 101,
      115, 41, 32, 102, 111, 114, 32, 97, 32, 115, 104, 101, 108, 108, 46, 32,
      32, 69, 115, 99, 97, 112, 101, 32, 115, 105, 110, 103, 108, 101, 32, 113,
      117, 111, 116, 101, 115, 44, 32, 97, 110, 100, 32, 115, 117, 114, 114, 111,
      117, 110, 100, 32, 116, 104, 101, 32, 114, 101, 115, 117, 108, 116, 32, 119,
      105, 116, 104, 32, 115, 105, 110, 103, 108, 101, 32, 113, 117, 111, 116, 101,
      115, 46, 10, 10>>

\* The writes of print_version(), each print call writing its text and then
\* its end: the length of the output when each write has completed.
version_writes == <<16, 17, 38, 39>>

\* The writes of print_help(), likewise.
help_writes ==
    <<539, 540, 554, 555, 556, 723, 724, 725, 979, 980, 981, 1315, 1316, 1317,
      1385, 1386, 1387, 1423, 1424, 1425, 1547, 1548, 1549, 1808, 1809, 1810,
      1938, 1939, 1940>>

\* What the k-th write of a print function writes.
WriteOf(text, writes, k) ==
    SubSeq(text, IF k = 1 THEN 1 ELSE writes[k - 1] + 1, writes[k])

\* os.linesep on a POSIX host.
linesep == <<LF>>

default_quoting_style == "literal"
default_delimiter == linesep

\* str.rstrip(chars): drop every trailing character that occurs in chars.
RECURSIVE rstrip(_, _)
rstrip(s, chars) ==
    IF s # <<>> /\ s[Len(s)] \in Range(chars)
    THEN rstrip(SubSeq(s, 1, Len(s) - 1), chars)
    ELSE s

\* The first position at or after i where sep occurs in s, or 0.
FindFrom(s, sep, i) ==
    IF \E j \in i..(Len(s) - Len(sep) + 1) : SubSeq(s, j, j + Len(sep) - 1) = sep
    THEN CHOOSE j \in i..(Len(s) - Len(sep) + 1) :
             /\ SubSeq(s, j, j + Len(sep) - 1) = sep
             /\ \A k \in i..(j - 1) : SubSeq(s, k, k + Len(sep) - 1) # sep
    ELSE 0

\* str.split(sep) for a non-empty sep.
RECURSIVE split(_, _)
split(s, sep) ==
    LET j == FindFrom(s, sep, 1)
    IN IF j = 0 THEN <<s>>
       ELSE <<SubSeq(s, 1, j - 1)>> \o split(SubSeq(s, j + Len(sep), Len(s)), sep)

\* The next line a text file yields from its unread text (not empty): up to
\* and including the first newline, or all of it when there is no newline.
readline(text) ==
    LET j == FindFrom(text, <<LF>>, 1)
    IN IF j = 0 THEN text ELSE SubSeq(text, 1, j)

\* quote_file_data(file_data), up to its call of quote_lines: the lines it
\* hands over.
quote_file_data_mutant(data, delim) == split(data, delim)
quote_file_data(data, delim) ==
    LET fragments == split(data, delim)
    IN IF Len(fragments[Len(fragments)]) = 0
       THEN SubSeq(fragments, 1, Len(fragments) - 1)
       ELSE fragments

\* What getopt can return: (option, value) pairs.  "--bogus" stands for an
\* argument getopt rejects with GetoptError.
MaxOptions == 2

OptionSet ==
    {<<"-q", st>> : st \in valid_quoting_styles \cup {"nosuchstyle"}}
    \cup {<<"-0", "">>, <<"-V", "">>, <<"-h", "">>, <<"--bogus", "">>}

OptionLists == UNION {[1..k -> OptionSet] : k \in 0..MaxOptions}

\* The characters of the texts behind the FILE operands.
FileAlphabet == {LOWERA, SQUOTE, LF, NUL}

\* The length of all the texts together.
RECURSIVE TotalLen(_)
TotalLen(ts) == IF ts = <<>> THEN 0 ELSE Len(Head(ts)) + TotalLen(Tail(ts))

InitMain ==
    /\ LibIdle
    /\ pc = "getopt"
    /\ options = <<>>
    /\ quoting_style = default_quoting_style
    /\ delimiter = default_delimiter
    /\ remaining_args \in {[f \in 1..n |-> f] : n \in 1..MaxFiles}
    /\ file_no = 0
    /\ texts = <<>>
    /\ file_data = <<>>
    /\ unread = <<>>
    /\ lines = <<>>
    /\ idx = 0
    /\ written = 0
    /\ buffering \in {"unbuffered", "line", "block"}
    /\ buffer = <<>>
    /\ stderr_pending = FALSE
    /\ stdout = <<>>
    /\ status = 0
    /\ finalizing = "no"

filevars == <<remaining_args, file_no, texts, file_data, unread, lines, idx>>
streamvars == <<buffering, buffer, stderr_pending, stdout>>

\* A step of the program is one input or output operation (an open, a read,
\* a write to sys.stdout, a flush) or one assignment to the state above.  A
\* failure is the failure of such an operation.  A signal is handled between
\* two bytecodes of main() or when it interrupts an operation on the
\* operating system's file; print makes its writes with no bytecode between
\* them.

\* ---------------------------------------------------------------------------
\* sys.stdout.  The interpreter sets it up unbuffered (python -u), line
\* buffered (standard output is a terminal) or block buffered (anything
\* else); standard output is open.  All the output of a run in this model
\* is shorter than the block buffer (io.DEFAULT_BUFFER_SIZE, 8192), so that a
\* buffer is never flushed because it is full.
\* ---------------------------------------------------------------------------

\* TextIOWrapper.write with line_buffering flushes when the text written has
\* a line end.
HasLineEnd(text) == LF \in Range(text) \/ CR \in Range(text)

\* sys.stdout.write(data) hands text to the operating system.
Flushes(data) ==
    \/ buffering = "unbuffered"
    \/ buffering = "line" /\ HasLineEnd(data)

\* sys.stdout.write(data) returns: the text is kept in the buffer, or it is
\* handed to the operating system with what the buffer held.
Write(data) ==
    IF Flushes(data)
    THEN /\ stdout' = stdout \o buffer \o data
         /\ buffer' = <<>>
    ELSE /\ buffer' = buffer \o data
         /\ UNCHANGED stdout

\* How many characters the operating system can take of text it does not take
\* whole: at most MaxPartial.
MaxPartial == 2

Partial(n) == {k \in 0..MaxPartial : k < n}

\* The operating system takes only the first k characters of what it is
\* handed.  A buffered stream keeps the rest; an unbuffered one has no place
\* for it.
Transfer(data, k) ==
    /\ stdout' = stdout \o SubSeq(buffer \o data, 1, k)
    /\ buffer' = IF buffering = "unbuffered"
                 THEN <<>>
                 ELSE SubSeq(buffer \o data, k + 1, Len(buffer \o data))

\* sys.stdout.write(data) raises OSError: the operating system has taken less
\* than it was handed (nothing, when the device is full or the reader is
\* gone).  An unbuffered stream goes on after a write the operating system
\* has taken only part of, and the operating system is one that fails its
\* next write, which is the delimiter's or the line end's in the same print
\* call.  An unbuffered stream hands the operating system the empty text
\* too, and that write fails as well.
WriteFails(data) ==
    /\ Flushes(data)
    /\ \E k \in Partial(Len(buffer \o data))
              \cup (IF buffering = "unbuffered" THEN {0} ELSE {}) :
           Transfer(data, k)

\* A signal arrives while sys.stdout.write(data) hands text to the operating
\* system, and signal_handler runs inside the write.  An unbuffered write is
\* interrupted before anything is taken; a buffered stream runs the handler
\* after each write of its flush, whatever that write has taken.
WriteInterrupted(data) ==
    /\ Flushes(data)
    /\ \E k \in IF buffering = "unbuffered"
              THEN Partial(Len(data)) \cap {0}
              ELSE Partial(Len(buffer \o data)) \cup {Len(buffer \o data)} :
           Transfer(data, k)

\* A print call of print_version() or print_help() is complete after k
\* writes: each of their print calls writes its text, which is never a bare
\* newline, and then its end, a newline; print() writes only its end.
BetweenPrints(text, writes, k) ==
    IF k = 0 THEN TRUE ELSE WriteOf(text, writes, k) = <<LF>>

\* ---------------------------------------------------------------------------
\* main().
\* ---------------------------------------------------------------------------

\* getopt fails: main() calls print_error.
GetoptError ==
    /\ pc = "getopt"
    /\ \E opts \in OptionLists :
           \E i \in 1..Len(opts) : opts[i][1] = "--bogus"
    /\ pc' = "print_error"
    /\ UNCHANGED <<options, quoting_style, delimiter, filevars, written, streamvars,
                   status, finalizing, libvars>>

\* getopt returns the options and the operands.
Getopt ==
    /\ pc = "getopt"
    /\ \E opts \in OptionLists :
           /\ \A i \in 1..Len(opts) : opts[i][1] # "--bogus"
           /\ options' = opts
    /\ pc' = "options"
    /\ UNCHANGED <<quoting_style, delimiter, filevars, written, streamvars, status,
                   finalizing, libvars>>

\* The options loop meets -V and calls print_version(); nothing is written
\* yet.
OptionVersion ==
    /\ pc = "options"
    /\ options # <<>>
    /\ Head(options)[1] = "-V"
    /\ options' = Tail(options)
    /\ pc' = "print_version"
    /\ written' = 0
    /\ UNCHANGED <<quoting_style, delimiter, filevars, streamvars, status, finalizing,
                   libvars>>

\* The options loop meets -h and calls print_help(); nothing is written yet.
OptionHelp ==
    /\ pc = "options"
    /\ options # <<>>
    /\ Head(options)[1] = "-h"
    /\ options' = Tail(options)
    /\ pc' = "print_help"
    /\ written' = 0
    /\ UNCHANGED <<quoting_style, delimiter, filevars, streamvars, status, finalizing,
                   libvars>>

\* The options loop meets -q: quoting_style = value.
OptionQuotingStyle ==
    /\ pc = "options"
    /\ options # <<>>
    /\ Head(options)[1] = "-q"
    /\ quoting_style' = Head(options)[2]
    /\ options' = Tail(options)
    /\ UNCHANGED <<pc, delimiter, filevars, written, streamvars, status, finalizing,
                   libvars>>

\* The options loop meets -0: delimiter = '\0'.
OptionNull ==
    /\ pc = "options"
    /\ options # <<>>
    /\ Head(options)[1] = "-0"
    /\ delimiter' = <<NUL>>
    /\ options' = Tail(options)
    /\ UNCHANGED <<pc, quoting_style, filevars, written, streamvars, status, finalizing,
                   libvars>>

\* The options loop runs to its end.
EndOfOptions ==
    /\ pc = "options"
    /\ options = <<>>
    /\ pc' = "validate"
    /\ UNCHANGED <<options, quoting_style, delimiter, filevars, written, streamvars,
                   status, finalizing, libvars>>

\* One write of print_version().
print_version ==
    /\ pc = "print_version"
    /\ written < Len(version_writes)
    /\ Write(WriteOf(version_text, version_writes, written + 1))
    /\ written' = written + 1
    /\ UNCHANGED <<pc, options, quoting_style, delimiter, filevars, buffering,
                   stderr_pending, status, finalizing, libvars>>

\* print_version() has returned; main() returns None.
ReturnAfterVersion ==
    /\ pc = "print_version"
    /\ written = Len(version_writes)
    /\ pc' = "version"
    /\ UNCHANGED <<options, quoting_style, delimiter, filevars, written, streamvars,
                   status, finalizing, libvars>>

\* One write of print_help().
print_help ==
    /\ pc = "print_help"
    /\ written < Len(help_writes)
    /\ Write(WriteOf(help_text, help_writes, written + 1))
    /\ written' = written + 1
    /\ UNCHANGED <<pc, options, quoting_style, delimiter, filevars, buffering,
                   stderr_pending, status, finalizing, libvars>>

\* print_help() has returned; main() returns None.
ReturnAfterHelp ==
    /\ pc = "print_help"
    /\ written = Len(help_writes)
    /\ pc' = "help"
    /\ UNCHANGED <<options, quoting_style, delimiter, filevars, written, streamvars,
                   status, finalizing, libvars>>

\* Validate quoting_style: not valid; main() calls print_error.
InvalidStyle ==
    /\ pc = "validate"
    /\ quoting_style \notin valid_quoting_styles
    /\ pc' = "print_error"
    /\ UNCHANGED <<options, quoting_style, delimiter, filevars, written, streamvars,
                   status, finalizing, libvars>>

\* Validate quoting_style: valid; go on to the loop over the operands.
ValidStyle ==
    /\ pc = "validate"
    /\ quoting_style \in valid_quoting_styles
    /\ pc' = "files"
    /\ UNCHANGED <<options, quoting_style, delimiter, filevars, written, streamvars,
                   status, finalizing, libvars>>

\* The next operand is taken up (a named file is opened) and some text is
\* behind it (all the texts of a run together are at most MaxLenFile long).
\* Nothing is read yet.  When the delimiter is os.linesep the file is handed
\* to quote_lines; otherwise read() is called on it.
OpenFile ==
    /\ pc = "files"
    /\ file_no < Len(remaining_args)
    /\ \E text \in Strings(FileAlphabet, MaxLenFile - TotalLen(texts)) :
           /\ texts' = Append(texts, text)
           /\ unread' = text
    /\ file_data' = <<>>
    /\ lines' = <<>>
    /\ file_no' = file_no + 1
    /\ idx' = 0
    /\ pc' = IF delimiter = linesep THEN "quote_lines" ELSE "read"
    /\ UNCHANGED <<options, quoting_style, delimiter, remaining_args, written,
                   streamvars, status, finalizing, libvars>>

\* read() returns the whole text, which is handed to quote_file_data.
ReadFile ==
    /\ pc = "read"
    /\ file_data' = unread
    /\ unread' = <<>>
    /\ pc' = "split"
    /\ UNCHANGED <<options, quoting_style, delimiter, remaining_args, file_no, texts,
                   lines, idx, written, streamvars, status, finalizing, libvars>>

\* quote_file_data: lines = file_data.split(delimiter).
SplitFileData ==
    /\ pc = "split"
    /\ lines' = split(file_data, delimiter)
    /\ pc' = "del"
    /\ UNCHANGED <<options, quoting_style, delimiter, remaining_args, file_no, texts,
                   file_data, unread, idx, written, streamvars, status, finalizing,
                   libvars>>

\* quote_file_data: the last line is deleted if it is empty, and the lines
\* are handed to quote_lines.
DeleteLast ==
    /\ pc = "del"
    /\ lines' = quote_file_data(file_data, delimiter)
    /\ pc' = "quote_lines"
    /\ UNCHANGED <<options, quoting_style, delimiter, remaining_args, file_no, texts,
                   file_data, unread, idx, written, streamvars, status, finalizing,
                   libvars>>

\* The loop of quote_lines takes the next line: when a file is iterated the
\* line is read from it.  The line is quoted; nothing is written yet.
NextLine ==
    /\ pc = "quote_lines"
    /\ IF delimiter = linesep
       THEN /\ unread # <<>>
            /\ lines' = Append(lines, readline(unread))
            /\ unread' = SubSeq(unread, Len(readline(unread)) + 1, Len(unread))
       ELSE /\ idx < Len(lines)
            /\ UNCHANGED <<lines, unread>>
    /\ pc' = "print_text"
    /\ UNCHANGED <<options, quoting_style, delimiter, remaining_args, file_no, texts,
                   file_data, idx, written, streamvars, status, finalizing, libvars>>

\* What print is called on in quote_lines for the line at hand.
QuotedLine ==
    quoting_style_to_function_map(quoting_style, rstrip(lines[idx + 1], delimiter))

\* The first write of print(quote_function(line.rstrip(delimiter)),
\* end=delimiter): the quoted line.
PrintText ==
    /\ pc = "print_text"
    /\ Write(QuotedLine)
    /\ pc' = "print_end"
    /\ UNCHANGED <<options, quoting_style, delimiter, filevars, written, buffering,
                   stderr_pending, status, finalizing, libvars>>

\* The second write of that print call: the delimiter.  The loop turn is
\* over.
PrintEnd ==
    /\ pc = "print_end"
    /\ Write(delimiter)
    /\ idx' = idx + 1
    /\ pc' = "quote_lines"
    /\ UNCHANGED <<options, quoting_style, delimiter, remaining_args, file_no, texts,
                   file_data, unread, lines, written, buffering, stderr_pending, status,
                   finalizing, libvars>>

\* The loop of quote_lines ends: no line is left.
EndOfLines ==
    /\ pc = "quote_lines"
    /\ IF delimiter = linesep THEN unread = <<>> ELSE idx = Len(lines)
    /\ pc' = "files"
    /\ UNCHANGED <<options, quoting_style, delimiter, filevars, written, streamvars,
                   status, finalizing, libvars>>

\* The loop over the operands ends; main() returns None.
Finish ==
    /\ pc = "files"
    /\ file_no = Len(remaining_args)
    /\ pc' = "done"
    /\ UNCHANGED <<options, quoting_style, delimiter, filevars, written, streamvars,
                   status, finalizing, libvars>>

\* OSError or UnicodeDecodeError inside the try block: open() fails, a read
\* fails or cannot be decoded, or a write of print fails.  main() calls
\* print_error.
OSErrorOrUnicodeDecodeError ==
    /\ \/ /\ \/ pc = "files" /\ file_no < Len(remaining_args)
             \/ pc = "read"
             \/ pc = "quote_lines" /\ delimiter = linesep
          /\ UNCHANGED <<stdout, buffer>>
       \/ pc = "print_text" /\ WriteFails(QuotedLine)
       \/ pc = "print_end" /\ WriteFails(delimiter)
    /\ pc' = "print_error"
    /\ UNCHANGED <<options, quoting_style, delimiter, filevars, written, buffering,
                   stderr_pending, status, finalizing, libvars>>

\* print_error has written its message to standard error; main() returns 1.
print_error ==
    /\ pc = "print_error"
    /\ pc' = "error"
    /\ status' = 1
    /\ UNCHANGED <<options, quoting_style, delimiter, filevars, written, streamvars,
                   finalizing, libvars>>

\* OSError outside the try block: a write of print_version(), print_help()
\* or print_error fails.  Nothing catches it: the exception leaves main() and
\* the script, and the interpreter will exit with status 1.  sys.stderr is
\* line buffered unless the interpreter runs unbuffered, and then keeps the
\* text it could not write.
UncaughtOSError ==
    /\ \/ /\ pc = "print_version"
          /\ written < Len(version_writes)
          /\ WriteFails(WriteOf(version_text, version_writes, written + 1))
          /\ UNCHANGED stderr_pending
       \/ /\ pc = "print_help"
          /\ written < Len(help_writes)
          /\ WriteFails(WriteOf(help_text, help_writes, written + 1))
          /\ UNCHANGED stderr_pending
       \/ /\ pc = "print_error"
          /\ stderr_pending' = (buffering # "unbuffered")
          /\ UNCHANGED <<stdout, buffer>>
    /\ pc' = "uncaught"
    /\ status' = 1
    /\ UNCHANGED <<options, quoting_style, delimiter, filevars, written, buffering,
                   finalizing, libvars>>

\* SIGINT or SIGTERM is handled between two bytecodes, once the handlers are
\* installed: sys.exit(0).  That is anywhere in main() but inside a print
\* call, and when main() has returned and sys.exit has not yet been called on
\* its value.
signal_handler ==
    /\ finalizing = "no"
    /\ \/ pc \in {"getopt", "options", "validate", "files", "read", "split", "del",
                  "quote_lines", "print_text", "print_error"}
       \/ pc = "print_version" /\ BetweenPrints(version_text, version_writes, written)
       \/ pc = "print_help" /\ BetweenPrints(help_text, help_writes, written)
       \/ pc \in {"done", "version", "help", "error"}
    /\ pc' = "signalled"
    /\ status' = 0
    /\ UNCHANGED <<options, quoting_style, delimiter, filevars, written, streamvars,
                   finalizing, libvars>>

\* SIGINT or SIGTERM interrupts a write of print: sys.exit(0) inside the
\* write.  In print_error the write is to sys.stderr, which keeps the text
\* the operating system has not taken unless it is unbuffered.
SignalInWrite ==
    /\ \/ /\ pc = "print_text"
          /\ WriteInterrupted(QuotedLine)
          /\ UNCHANGED stderr_pending
       \/ /\ pc = "print_end"
          /\ WriteInterrupted(delimiter)
          /\ UNCHANGED stderr_pending
       \/ /\ pc = "print_version"
          /\ written < Len(version_writes)
          /\ WriteInterrupted(WriteOf(version_text, version_writes, written + 1))
          /\ UNCHANGED stderr_pending
       \/ /\ pc = "print_help"
          /\ written < Len(help_writes)
          /\ WriteInterrupted(WriteOf(help_text, help_writes, written + 1))
          /\ UNCHANGED stderr_pending
       \/ /\ pc = "print_error"
          /\ buffering # "unbuffered"
          /\ stderr_pending' = TRUE
          /\ UNCHANGED <<stdout, buffer>>
    /\ pc' = "signalled"
    /\ status' = 0
    /\ UNCHANGED <<options, quoting_style, delimiter, filevars, written, buffering,
                   finalizing, libvars>>

\* ---------------------------------------------------------------------------
\* sys.exit(main()) and the end of the interpreter.  The script is left by
\* SystemExit or by the uncaught exception, and the interpreter flushes
\* sys.stderr and sys.stdout three times: after the script, where a failure
\* is ignored, and at the start and at the end of its finalization, where a
\* failure makes the exit status 120.  The signal handlers are taken away
\* between the last two flushes.  A flush waits in its write when the
\* operating system takes no text, and a signal is handled or ends the
\* process there.
\* ---------------------------------------------------------------------------

\* main() has returned or has been left by an exception.
Ended == pc \in {"done", "version", "help", "error", "uncaught", "signalled"}

\* How much of the text sys.stdout holds the operating system can take in a
\* flush, and whether sys.stderr can still hold text after one.
Taken == Partial(Len(buffer)) \cup {Len(buffer)}
Held == IF stderr_pending THEN {TRUE, FALSE} ELSE {FALSE}

\* One flush of sys.stderr and sys.stdout: the operating system takes the
\* first k characters of the text sys.stdout holds, and sys.stderr still
\* holds text after it (held) or does not.
Flush(k, held) ==
    /\ stdout' = stdout \o SubSeq(buffer, 1, k)
    /\ buffer' = SubSeq(buffer, k + 1, Len(buffer))
    /\ stderr_pending' = held

\* The flush after the script.  A failure is ignored, and so is the
\* SystemExit of signal_handler when it runs inside the flush.
FlushAfterScript ==
    /\ Ended
    /\ finalizing = "no"
    /\ \E k \in Taken, held \in Held : Flush(k, held)
    /\ finalizing' = "flush_io"
    /\ UNCHANGED <<pc, options, quoting_style, delimiter, filevars, written, buffering,
                   status, libvars>>

\* The flush at the start of finalization; the signal handlers are taken
\* away after it.  The exit status becomes 120 when the flush fails: the
\* operating system does not take all the text of a stream, or
\* signal_handler runs inside the flush of a stream that holds text.
FlushAtFinalization ==
    /\ finalizing = "flush_io"
    /\ \E k \in Taken, held \in Held :
           /\ Flush(k, held)
           /\ \/ /\ k = Len(buffer)
                 /\ ~held
                 /\ UNCHANGED status
              \/ /\ buffer # <<>> \/ stderr_pending
                 /\ status' = 120
    /\ finalizing' = "signals_off"
    /\ UNCHANGED <<pc, options, quoting_style, delimiter, filevars, written, buffering,
                   libvars>>

\* The flush at the end of finalization, and the exit.  The exit status
\* becomes 120 when the flush fails.  What the operating system has not taken
\* by now is lost.
FlushAtExit ==
    /\ finalizing = "signals_off"
    /\ \E k \in Taken, held \in Held :
           /\ stdout' = stdout \o SubSeq(buffer, 1, k)
           /\ status' = IF k < Len(buffer) \/ held THEN 120 ELSE status
    /\ buffer' = <<>>
    /\ stderr_pending' = FALSE
    /\ finalizing' = "exited"
    /\ UNCHANGED <<pc, options, quoting_style, delimiter, filevars, written, buffering,
                   libvars>>

\* SIGINT or SIGTERM arrives when the handlers have been taken away, before
\* or inside the last flush: the signal ends the process, which has no exit
\* status then.  What the operating system has not taken is lost.
Killed ==
    /\ finalizing = "signals_off"
    /\ \E k \in Taken : stdout' = stdout \o SubSeq(buffer, 1, k)
    /\ buffer' = <<>>
    /\ stderr_pending' = FALSE
    /\ finalizing' = "killed"
    /\ UNCHANGED <<pc, options, quoting_style, delimiter, filevars, written, buffering,
                   status, libvars>>

NextMain ==
    \/ GetoptError
    \/ Getopt
    \/ OptionQuotingStyle
    \/ OptionNull
    \/ EndOfOptions
    \/ OptionVersion
    \/ OptionHelp
    \/ print_version
    \/ ReturnAfterVersion
    \/ print_help
    \/ ReturnAfterHelp
    \/ InvalidStyle
    \/ ValidStyle
    \/ OpenFile
    \/ ReadFile
    \/ SplitFileData
    \/ DeleteLast
    \/ NextLine
    \/ PrintText
    \/ PrintEnd
    \/ EndOfLines
    \/ Finish
    \/ OSErrorOrUnicodeDecodeError
    \/ print_error
    \/ UncaughtOSError
    \/ signal_handler
    \/ SignalInWrite
    \/ FlushAfterScript
    \/ FlushAtFinalization
    \/ FlushAtExit
    \/ Killed

SpecMain == InitMain /\ [][NextMain]_vars

\* ---------------------------------------------------------------------------
\* C8: line-by-line output.
\* ---------------------------------------------------------------------------

\* The k-th smallest element of a set of numbers.
Nth(S, k) == CHOOSE x \in S : Cardinality({y \in S : y < x}) = k - 1

\* The input lines of a text with their delimiter stripped: the stretches
\* between delimiters, and the stretch after the last delimiter when it is
\* not empty.
InputLines(data, delim) ==
    LET P == {i \in 1..Len(data) : data[i] = delim[1]}
        n == Cardinality(P)
        first(k) == IF k = 1 THEN 1 ELSE Nth(P, k - 1) + 1
        last == IF n = 0 THEN 0 ELSE Nth(P, n)
    IN [k \in 1..n |-> SubSeq(data, first(k), Nth(P, k) - 1)]
       \o (IF last < Len(data) THEN <<SubSeq(data, last + 1, Len(data))>> ELSE <<>>)

\* The records the first n input lines give under a style and a delimiter.
OutputRecords(data, style, delim, n) ==
    Concat([k \in 1..n |->
              quoting_style_to_function_map(style, InputLines(data, delim)[k]) \o delim])

\* All the records of the first n operands.
OutputOfFiles(n) ==
    Concat([f \in 1..n |->
              OutputRecords(texts[f], quoting_style, delimiter,
                            Len(InputLines(texts[f], delimiter)))])

\* The records due while the operand at hand is being quoted, when idx of
\* its records are complete.
OutputSoFar ==
    OutputOfFiles(file_no - 1)
    \o OutputRecords(texts[file_no], quoting_style, delimiter, idx)

\* What the print calls have emitted: the text standard output has got and
\* the text sys.stdout still holds.
Emitted == stdout \o buffer

\* C8: quote_lines emits one record per input line, in input order, each the
\* style's quoting of the line without its delimiter, followed by the
\* delimiter; only a single trailing empty fragment is dropped.  While a file
\* is being quoted, what has been emitted is the records of the lines taken
\* so far, the record being written lacking at most its delimiter; when
\* quote_lines has returned it is one record for every line; and when the
\* program has exited with status 0 after main() returned from the loop over
\* the operands, all of it is on standard output.
C8_LineByLine ==
    /\ pc \in {"quote_lines", "print_text", "print_end"} =>
          /\ idx <= Len(InputLines(texts[file_no], delimiter))
          /\ Len(lines) <= Len(InputLines(texts[file_no], delimiter))
    /\ pc \in {"quote_lines", "print_text"} => Emitted = OutputSoFar
    /\ pc \in {"print_text", "print_end"} =>
          idx < Len(InputLines(texts[file_no], delimiter))
    /\ pc = "print_end" =>
          Emitted = OutputSoFar
                    \o quoting_style_to_function_map(
                           quoting_style, InputLines(texts[file_no], delimiter)[idx + 1])
    /\ pc \in {"read", "split", "del"} => Emitted = OutputOfFiles(file_no - 1)
    /\ (pc \in {"files", "done"} /\ finalizing = "no") =>
          Emitted = OutputOfFiles(file_no)
    /\ (pc = "done" /\ finalizing = "exited" /\ status = 0) =>
          stdout = OutputOfFiles(Len(remaining_args))

\* Witness: the program has exited with status 0 after a NUL-delimited text
\* with an interior empty record and a second operand, its output block
\* buffered.
C8_Witness ==
    /\ pc = "done"
    /\ finalizing = "exited"
    /\ status = 0
    /\ buffering = "block"
    /\ quoting_style = "shell-always"
    /\ delimiter = <<NUL>>
    /\ texts = << <<SQUOTE, NUL, NUL>>, <<>> >>
    /\ stdout = <<SQUOTE, SQUOTE, BACKSLASH, SQUOTE, SQUOTE, SQUOTE, NUL,
                  SQUOTE, SQUOTE, NUL>>

====
